---- MODULE Spec2Model ----
(***************************************************************************)
(* LEACH/DMS clustering simulations of danushv/558project.                 *)
(*                                                                         *)
(*   part_000  the failure-aware program (backup head, CheckNodeFailure)   *)
(*   part_002  the sampled program (InterClusterCommunication charges on   *)
(*             every 5th invocation, LogPeriodicEnergyLevels)              *)
(*   part_001  the energy-source program (BasicEnergySource, batch         *)
(*             reports, LogEnergyLevels), under SpecSource                 *)
(*                                                                         *)
(* All are ns-3 discrete-event programs: main() enqueues the first         *)
(* events, Simulator::Run() executes the pending event with the smallest   *)
(* (timestamp, uid) until the stop event has run.  One action of this      *)
(* module is one executed event, i.e. one whole handler.                   *)
(*                                                                         *)
(* Units.  An energy is the C++ double the program holds, with the         *)
(* hardware's rounding on every subtraction and product (section           *)
(* "doubles"); the literals of the programs and the bounds of the model    *)
(* are written in hundredths of a joule (10.0 J = 1000).  A transmission   *)
(* power is named by its tenths of basePower (1.5 = 15).  A distance is    *)
(* carried as its square: for d >= 0, d > c iff d*d > c*c and d1 < d2 iff  *)
(* d1*d1 < d2*d2, so every comparison the programs make on a distance is   *)
(* made exactly.                                                           *)
(***************************************************************************)
EXTENDS Integers, Sequences, FiniteSets, TLC

\* Bounds of the model.  main() creates 10 sensor nodes, stops at 600 s and
\* starts every node with 100 J; the model runs the same programs with fewer
\* nodes, an earlier stop and a smaller capacity, so that the floors at 10 J
\* and 5 J and the clamp at 0 J are all crossed before the stop.  The stop
\* lies on part_002's log period (100 s), so that the log main requested
\* runs once, ahead of the stop requested after it for the same time.
NumNodes == 3
StopTime == 100
\* part_001's second program (one log and one depletion check per node and
\* second) runs the same way with a stop after a few seconds.
StopTimeMonitor == 4
initialEnergy == 1200
\* Largest squared distance handed to CalculateTransmissionPower when the
\* function is taken alone (both thresholds lie below it).
MaxDistanceSq == 2600
\* part_001: what the radio takes from one node's energy source between two
\* events when it does not empty it (0.60 J, by the reals 5 % of the initial
\* energy, so that the report test is met on its boundary), and how many
\* times the radio lowers a source in a run.
RadioStep == 60
MaxRadioSteps == 2

\* Election floor (energy > 10.0) and failure threshold (energy < 5.0).
EligibilityFloor == 1000
DeathFloor == 500
\* Squares of the DMS distance thresholds 50.0 and 20.0.
LongRangeSq == 2500
MidRangeSq == 400
\* std::numeric_limits<double>::max() as a squared distance no node reaches.
DoubleMax == 1000000000
\* nodes.Get(0): the sensor node the round scheduler passes as base station.
BaseStationId == 0

Nodes == 0 .. (NumNodes - 1)
Programs == {"part_000", "part_002"}

VARIABLES
    program,            \* which program runs
    now,                \* Simulator::Now(), seconds
    queue,              \* pending events: records [ts, uid, kind, a, b]
    nextUid,            \* uid the next scheduled event gets
    stopped,            \* the stop event has run
    nodeEnergyLevels,   \* std::map<uint32_t,double> nodeEnergyLevels
    clusters,           \* std::map<uint32_t,Cluster> clusters
    roundCounter,       \* part_002: static int roundCounter
    last,               \* history: the event executed last
    prevEnergy,         \* history: nodeEnergyLevels before that event
    prevClusters,       \* history: clusters before that event
    lastSamples,        \* history: the draws of the election just run
    everFailed,         \* history: nodes whose energy was ever <= 5 J
    lastReportedEnergy, \* part_001: std::map<uint32_t,double> lastReportedEnergy
    electTimes,         \* history: the times at which ElectClusterHeads ran
    checkTimes,         \* history: the times at which CheckNodeFailure ran
    emitted,            \* history: the nodes the last event logged a report for
    depletionReports,   \* history: per node, the depletion reports logged so far
    zeroSince,          \* history: per node, the time at which its source ran
                        \*          empty (-1 while it has not)
    call,               \* a function taken alone: its name and arguments
    ret                 \* ... and what it returned ({} before the call)

vars == <<program, now, queue, nextUid, stopped, nodeEnergyLevels, clusters,
          roundCounter, last, prevEnergy, prevClusters, lastSamples, everFailed,
          lastReportedEnergy, electTimes, checkTimes, emitted,
          depletionReports, zeroSince, call, ret>>

MinOf(S) == CHOOSE x \in S : \A y \in S : x <= y

\* ------------------------------------------------------------ doubles
\* Every energy is a C++ double.  A double is carried as
\*   [neg, hi, lo, e]   value (-1)^neg * (hi * 2^28 + lo) * 2^e,
\* where the significand hi * 2^28 + lo has exactly SignificandBits bits
\* (or is 0, with e = 0).  Sums, differences and products are rounded to
\* nearest, ties to even, as the hardware does.  Infinities, NaN and
\* subnormal values are out of the range of an energy level and are not
\* represented.
SignificandBits == 53
LimbBits == 28
Limb == 2 ^ LimbBits
\* A sum or difference is formed on significands extended by three bits
\* (guard, round, sticky), i.e. on two full limbs.
ExtraBits == 2 * LimbBits - SignificandBits
TopBits == LimbBits - ExtraBits

Zero == [neg |-> FALSE, hi |-> 0, lo |-> 0, e |-> 0]
IsZero(a) == a.hi = 0 /\ a.lo = 0

\* C++ evaluates an operand once: an operator on doubles takes the one
\* element of the set of its operand's value.
Only(S) == CHOOSE x \in S : TRUE

\* The number of bits of a natural number below 2^29.
BitsOfNibble(n) ==
    IF n >= 8 THEN 4 ELSE IF n >= 4 THEN 3 ELSE IF n >= 2 THEN 2 ELSE n

Bits(n) ==
    IF n >= 2 ^ 16
    THEN IF n >= 2 ^ 24
         THEN IF n >= 2 ^ 28 THEN 29 ELSE 24 + BitsOfNibble(n \div 2 ^ 24)
         ELSE IF n >= 2 ^ 20 THEN 20 + BitsOfNibble(n \div 2 ^ 20)
              ELSE 16 + BitsOfNibble(n \div 2 ^ 16)
    ELSE IF n >= 2 ^ 8
         THEN IF n >= 2 ^ 12 THEN 12 + BitsOfNibble(n \div 2 ^ 12)
              ELSE 8 + BitsOfNibble(n \div 2 ^ 8)
         ELSE IF n >= 2 ^ 4 THEN 4 + BitsOfNibble(n \div 2 ^ 4)
              ELSE BitsOfNibble(n)

\* lo with its lowest bit set when bits were lost below it.
Sticky(lo, lost) == IF lost /\ lo % 2 = 0 THEN lo + 1 ELSE lo

\* (hi, lo) shifted right by d bits, the bits shifted out kept as a sticky bit.
ShiftRightSticky(hi, lo, d) ==
    IF d = 0 THEN [hi |-> hi, lo |-> lo]
    ELSE IF d < LimbBits
    THEN [hi |-> hi \div 2 ^ d,
          lo |-> Sticky((lo \div 2 ^ d) + (hi % 2 ^ d) * 2 ^ (LimbBits - d),
                        lo % 2 ^ d # 0)]
    ELSE IF d < 2 * LimbBits + 1
    THEN [hi |-> 0,
          lo |-> Sticky(hi \div 2 ^ (d - LimbBits),
                        hi % 2 ^ (d - LimbBits) # 0 \/ lo # 0)]
    ELSE [hi |-> 0, lo |-> Sticky(0, hi # 0 \/ lo # 0)]

\* (hi, lo) shifted left by k bits; the result fits in two limbs.
ShiftLeftLimbs(hi, lo, k) ==
    IF k = 0 THEN [hi |-> hi, lo |-> lo]
    ELSE IF k < LimbBits
    THEN [hi |-> hi * 2 ^ k + lo \div 2 ^ (LimbBits - k),
          lo |-> (lo % 2 ^ (LimbBits - k)) * 2 ^ k]
    ELSE [hi |-> lo * 2 ^ (k - LimbBits), lo |-> 0]

\* A two-limb significand (q its upper 53 bits, rest the three bits below
\* them) rounded to nearest, ties to even.
RoundedUp(full) ==
    \/ 2 * (full.lo % 2 ^ ExtraBits) > 2 ^ ExtraBits
    \/ /\ 2 * (full.lo % 2 ^ ExtraBits) = 2 ^ ExtraBits
       /\ (full.lo \div 2 ^ ExtraBits) % 2 = 1

RoundHalfEven(neg, full, e) ==
    Only({ IF q.hi = 2 ^ TopBits
           THEN [neg |-> neg, hi |-> 2 ^ (TopBits - 1), lo |-> 0, e |-> e + ExtraBits + 1]
           ELSE [neg |-> neg, hi |-> q.hi, lo |-> q.lo, e |-> e + ExtraBits] :
           q \in { IF RoundedUp(full)
                   THEN IF (full.lo \div 2 ^ ExtraBits) + (full.hi % 2 ^ ExtraBits) * 2 ^ TopBits + 1 = Limb
                        THEN [hi |-> full.hi \div 2 ^ ExtraBits + 1, lo |-> 0]
                        ELSE [hi |-> full.hi \div 2 ^ ExtraBits,
                              lo |-> (full.lo \div 2 ^ ExtraBits)
                                        + (full.hi % 2 ^ ExtraBits) * 2 ^ TopBits + 1]
                   ELSE [hi |-> full.hi \div 2 ^ ExtraBits,
                         lo |-> (full.lo \div 2 ^ ExtraBits)
                                   + (full.hi % 2 ^ ExtraBits) * 2 ^ TopBits] } })

\* The double nearest to (hi * 2^28 + lo) * 2^e, ties to even, where hi may
\* have one bit more than a limb and the lowest bit of lo may be a sticky bit.
Normalise(neg, hi, lo, e) ==
    IF hi = 0 /\ lo = 0 THEN Zero
    ELSE Only({ Only({ RoundHalfEven(neg, full, e + len - 2 * LimbBits) :
                       full \in { IF len > 2 * LimbBits
                                  THEN ShiftRightSticky(hi, lo, 1)
                                  ELSE ShiftLeftLimbs(hi, lo, 2 * LimbBits - len) } }) :
                len \in { IF hi > 0 THEN LimbBits + Bits(hi) ELSE Bits(lo) } })

\* |a| < |b|
MagLess(a, b) ==
    IF IsZero(b) THEN FALSE
    ELSE IF IsZero(a) THEN TRUE
    ELSE IF a.e # b.e THEN a.e < b.e
    ELSE IF a.hi # b.hi THEN a.hi < b.hi
    ELSE a.lo < b.lo

Less(a, b) ==
    IF a.neg # b.neg THEN a.neg
    ELSE IF a.neg THEN MagLess(b, a) ELSE MagLess(a, b)

\* a < b, a <= b, a > b, a >= b on doubles.
DLess(a, b) == Only({Less(x, y) : x \in {a}, y \in {b}})
DLeq(a, b) == Only({~Less(y, x) : x \in {a}, y \in {b}})
DGreater(a, b) == Only({Less(y, x) : x \in {a}, y \in {b}})
DGeq(a, b) == Only({~Less(x, y) : x \in {a}, y \in {b}})

DNeg(a) == Only({IF IsZero(x) THEN x ELSE [x EXCEPT !.neg = ~x.neg] : x \in {a}})

\* |big| + |small| or |big| - |small| for |big| >= |small| > 0, with the
\* sign of big: small is aligned to big, both extended by ExtraBits.
AddAligned(big, small, subtract) ==
    Only({ Only({ IF sum.lo < 0
                  THEN Normalise(big.neg, sum.hi - 1, sum.lo + Limb, big.e - ExtraBits)
                  ELSE Normalise(big.neg, sum.hi + sum.lo \div Limb, sum.lo % Limb,
                                 big.e - ExtraBits) :
                  sum \in { IF subtract
                            THEN [hi |-> big.hi * 2 ^ ExtraBits + big.lo \div 2 ^ TopBits
                                            - shifted.hi,
                                  lo |-> (big.lo % 2 ^ TopBits) * 2 ^ ExtraBits - shifted.lo]
                            ELSE [hi |-> big.hi * 2 ^ ExtraBits + big.lo \div 2 ^ TopBits
                                            + shifted.hi,
                                  lo |-> (big.lo % 2 ^ TopBits) * 2 ^ ExtraBits + shifted.lo] } }) :
           shifted \in { ShiftRightSticky(small.hi * 2 ^ ExtraBits + small.lo \div 2 ^ TopBits,
                                          (small.lo % 2 ^ TopBits) * 2 ^ ExtraBits,
                                          big.e - small.e) } })

Add(a, b) ==
    IF IsZero(a) THEN b
    ELSE IF IsZero(b) THEN a
    ELSE IF MagLess(a, b) THEN AddAligned(b, a, a.neg # b.neg)
    ELSE AddAligned(a, b, a.neg # b.neg)

\* a + b, a - b and std::max(a, b) on doubles.
DAdd(a, b) == Only({Add(x, y) : x \in {a}, y \in {b}})

DSub(a, b) == Only({Add(x, y) : x \in {a}, y \in {DNeg(b)}})

DMax(a, b) == Only({IF Less(x, y) THEN y ELSE x : x \in {a}, y \in {b}})

\* The double nearest to the four-limb number v.l3 v.l2 v.l1 v.l0 times
\* 2^v.e, where v.lost tells that the number was cut off below v.l0.
RoundLimbs(v) ==
    IF v.l3 > 0
    THEN Only({ Normalise(v.neg,
                          v.l3 * 2 ^ (LimbBits - s) + v.l2 \div 2 ^ s,
                          Sticky((v.l2 % 2 ^ s) * 2 ^ (LimbBits - s) + v.l1 \div 2 ^ s,
                                 v.l1 % 2 ^ s # 0 \/ v.l0 # 0 \/ v.lost),
                          v.e + LimbBits + s) :
                s \in {Bits(v.l3)} })
    ELSE IF v.l2 > 0
    THEN Only({ Normalise(v.neg,
                          v.l2 * 2 ^ (LimbBits - s) + v.l1 \div 2 ^ s,
                          Sticky((v.l1 % 2 ^ s) * 2 ^ (LimbBits - s) + v.l0 \div 2 ^ s,
                                 v.l0 % 2 ^ s # 0 \/ v.lost),
                          v.e + s) :
                s \in {Bits(v.l2)} })
    ELSE Normalise(v.neg, v.l1, Sticky(v.l0, v.lost), v.e)

\* a * b on doubles: the significands are multiplied digit by digit in base
\* 2^14, two digits to a limb.  Columns are the sums of the digit products of
\* equal weight, Carried the columns with the carries of the lower ones.
HalfLimb == 2 ^ (LimbBits \div 2)

Digits(a) ==
    <<a.lo % HalfLimb, a.lo \div HalfLimb, a.hi % HalfLimb, a.hi \div HalfLimb>>

Columns(a, b) ==
    << a[1] * b[1],
       a[1] * b[2] + a[2] * b[1],
       a[1] * b[3] + a[2] * b[2] + a[3] * b[1],
       a[1] * b[4] + a[2] * b[3] + a[3] * b[2] + a[4] * b[1],
       a[2] * b[4] + a[3] * b[3] + a[4] * b[2],
       a[3] * b[4] + a[4] * b[3],
       a[4] * b[4] >>

Carried(c) ==
    Only({ Only({ Only({ <<c[1], t1, t2, t3, t4, t5, c[7] + t5 \div HalfLimb>> :
                         t5 \in {c[6] + t4 \div HalfLimb} }) :
                  t3 \in {c[4] + t2 \div HalfLimb},
                  t4 \in {c[5] + (c[4] + t2 \div HalfLimb) \div HalfLimb} }) :
           t1 \in {c[2] + c[1] \div HalfLimb},
           t2 \in {c[3] + (c[2] + c[1] \div HalfLimb) \div HalfLimb} })

Mul(a, b) ==
    IF IsZero(a) \/ IsZero(b) THEN Zero
    ELSE Only({ RoundLimbs([neg |-> a.neg # b.neg,
                            l3 |-> t[7],
                            l2 |-> (t[5] % HalfLimb) + (t[6] % HalfLimb) * HalfLimb,
                            l1 |-> (t[3] % HalfLimb) + (t[4] % HalfLimb) * HalfLimb,
                            l0 |-> (t[1] % HalfLimb) + (t[2] % HalfLimb) * HalfLimb,
                            lost |-> FALSE,
                            e |-> a.e + b.e]) :
                t \in {Carried(Columns(Digits(a), Digits(b)))} })

DMul(a, b) == Only({Mul(x, y) : x \in {a}, y \in {b}})

\* The double a decimal literal stands for: the one nearest to num / den, for
\* naturals num and den with 0 < den <= 2^17 and num / den either 0 or at
\* least 2^-28.  The quotient is developed to 84 binary places, 14 at a time:
\* Places(r, den, k) are the next k groups of places and the remainder.
Place(r, den) == <<(r * HalfLimb) \div den, (r * HalfLimb) % den>>

Literal(num, den) ==
    Only({ Only({ Only({ RoundLimbs([neg |-> FALSE,
                                     l3 |-> num \div den,
                                     l2 |-> p1[1] * HalfLimb + p2[1],
                                     l1 |-> p3[1] * HalfLimb + p4[1],
                                     l0 |-> p5[1] * HalfLimb + p6[1],
                                     lost |-> p6[2] # 0,
                                     e |-> -3 * LimbBits]) :
                         p5 \in {Place(p4[2], den)},
                         p6 \in {Place(Place(p4[2], den)[2], den)} }) :
                  p3 \in {Place(p2[2], den)},
                  p4 \in {Place(Place(p2[2], den)[2], den)} }) :
           p1 \in {Place(num % den, den)},
           p2 \in {Place(Place(num % den, den)[2], den)} })

\* An amount given in hundredths of a joule, as the double of its literal
\* (1200 is the double 12.0).
Joules(hundredths) == Literal(hundredths, 100)

\* The literals 10.0, 5.0 and initialEnergy, and basePower * 1.5, * 1.2 and
\* * 0.8 with basePower = 1.0, named by their tenths.
EligibilityLevel == Joules(EligibilityFloor)
DeathLevel == Joules(DeathFloor)
FullEnergy == Joules(initialEnergy)
PowerTiers == {8, 12, 15}
TierPower == [tenths \in PowerTiers |-> DMul(Literal(1, 1), Literal(tenths, 10))]
Power(tenths) == TierPower[tenths]

\* ------------------------------------------------------------ positions
\* SetMobility: node i is placed at (10 i, 10 i, 0).
Position(i) == [x |-> 10 * i, y |-> 10 * i]

\* MobilityModel::GetDistanceFrom, squared.
GetDistanceFrom(a, b) ==
    LET dx == Position(a).x - Position(b).x
        dy == Position(a).y - Position(b).y
    IN  dx * dx + dy * dy

\* ------------------------------------------------------------ energy ledger
InitializeNodeEnergyLevels == [n \in Nodes |-> FullEnergy]

\* Faulty ledgers the properties must tell from UpdateEnergy: one without the
\* clamp at 0, one that credits the amount instead of charging it.
UpdateEnergyNoClamp(levels, nodeId, energyUsed) ==
    IF nodeId \in DOMAIN levels
    THEN [levels EXCEPT ![nodeId] = DSub(@, energyUsed)]
    ELSE levels

UpdateEnergyCredit(levels, nodeId, energyUsed) ==
    IF nodeId \in DOMAIN levels
    THEN [levels EXCEPT ![nodeId] = DMax(Zero, DAdd(@, energyUsed))]
    ELSE levels

\* A faulty ledger without the find() guard: operator[] makes the entry.
UpdateEnergyInsert(levels, nodeId, energyUsed) ==
    [n \in DOMAIN levels \cup {nodeId} |->
        LET before == IF n \in DOMAIN levels THEN levels[n] ELSE Zero
        IN  IF n = nodeId THEN DMax(Zero, DSub(before, energyUsed)) ELSE before]

UpdateEnergy(levels, nodeId, energyUsed) ==
    IF nodeId \in DOMAIN levels
    THEN [levels EXCEPT ![nodeId] = DMax(Zero, DSub(@, energyUsed))]
    ELSE levels

\* ------------------------------------------------------------ DMS power
\* In tenths of basePower; the argument is a squared distance.  The energy
\* a fire asks for is 0.1 * txPower (intra) or 0.2 * txPower (inter).
TierIntraEnergy == [txPower \in PowerTiers |-> DMul(Literal(1, 10), Power(txPower))]
TierInterEnergy == [txPower \in PowerTiers |-> DMul(Literal(2, 10), Power(txPower))]
IntraEnergy(txPower) == TierIntraEnergy[txPower]
InterEnergy(txPower) == TierInterEnergy[txPower]

\* A faulty policy whose tiers include their lower boundary (>=).
CalculateTransmissionPowerInclusive(distance) ==
    IF distance >= LongRangeSq THEN 15
    ELSE IF distance >= MidRangeSq THEN 12
    ELSE 8

CalculateTransmissionPower(distance) ==
    IF distance > LongRangeSq THEN 15
    ELSE IF distance > MidRangeSq THEN 12
    ELSE 8

\* The priority-aware policy of basic-network.cc and of part_001's second
\* program, after a faulty one that looks at the distance first.
SetTransmissionPowerDistanceFirst(distance, isHighPriority) ==
    IF distance > LongRangeSq THEN 12
    ELSE IF isHighPriority THEN 15
    ELSE 8

SetTransmissionPower(distance, isHighPriority) ==
    IF isHighPriority THEN 15
    ELSE IF distance > LongRangeSq THEN 12
    ELSE 8

\* ------------------------------------------------------------ election
\* A faulty ClearClusters that keeps the previous round's table.
ClearClustersKeep(old) == old

ClearClusters(old) == [h \in {} |-> old[h]]

\* The backup scan: maxEnergy starts at 0.0 and only a strictly larger
\* energy replaces it.  The result is a set: {} is nullptr.
RECURSIVE FindFrom(_, _, _, _, _)
FindFrom(members, levels, i, maxEnergy, backupNode) ==
    IF i > Len(members) THEN backupNode
    ELSE LET memberEnergy == levels[members[i]]
         IN  IF DGreater(memberEnergy, maxEnergy)
             THEN FindFrom(members, levels, i + 1, memberEnergy, {members[i]})
             ELSE FindFrom(members, levels, i + 1, maxEnergy, backupNode)

\* A faulty scan that lets an equal energy replace the candidate (>=), so
\* that the last of several maxima wins.
FindNodeWithHighEnergyLast(members, levels) ==
    LET best == {i \in 1 .. Len(members) :
                    /\ DGreater(levels[members[i]], Zero)
                    /\ \A j \in 1 .. Len(members) :
                          DLeq(levels[members[j]], levels[members[i]])}
    IN  IF best = {} THEN {}
        ELSE {members[CHOOSE i \in best : \A j \in best : j <= i]}

FindNodeWithHighEnergy(members, levels) == FindFrom(members, levels, 1, Zero, {})

\* The test of one node: drawn is "rand()/RAND_MAX <= clusterHeadProbability".
\* Two faulty tests come first: one that admits a node exactly at the floor,
\* one that only asks for some energy.
ElectionTestAtFloor(drawn, energy) == drawn /\ DGeq(energy, EligibilityLevel)

ElectionTestDeathFloor(drawn, energy) == drawn /\ DGreater(energy, Zero)

ElectionTest(drawn, energy) == drawn /\ DGreater(energy, EligibilityLevel)

\* A Cluster as ElectClusterHeads creates it.  part_002's Cluster has no
\* backupHead member; it is carried as {} there.  A faulty one comes first,
\* which scans all nodes for the backup instead of the new, empty list.
NewClusterBackupFromAll(node, levels) ==
    [clusterHead |-> node,
     backupHead  |-> FindNodeWithHighEnergy([i \in 1 .. NumNodes |-> i - 1], levels),
     members     |-> <<>>]

NewCluster(node, levels) ==
    [clusterHead |-> node,
     backupHead  |-> FindNodeWithHighEnergy(<<>>, levels),
     members     |-> <<>>]

\* samples: the nodes whose draw was <= clusterHeadProbability.
ElectClusterHeads(old, samples, levels) ==
    LET cleared == ClearClusters(old)
        elected == {n \in Nodes : ElectionTest(n \in samples, levels[n])}
    IN  [h \in (DOMAIN cleared) \cup elected |->
            IF h \in elected THEN NewCluster(h, levels) ELSE cleared[h]]

\* ------------------------------------------------------------ formation
\* A faulty comparison that lets a later, equally near head win.
IsCloserOrEqual(distance, minDistance) == distance <= minDistance

IsCloser(distance, minDistance) == distance < minDistance

\* The inner loop of FormClusters over the map, in key order.
RECURSIVE ClosestClusterHead(_, _, _, _, _)
ClosestClusterHead(node, cl, remaining, minDistance, closest) ==
    IF remaining = {} THEN closest
    ELSE LET k == MinOf(remaining)
             clusterHead == cl[k].clusterHead
             distance == GetDistanceFrom(node, clusterHead)
         IN  IF IsCloser(distance, minDistance)
             THEN ClosestClusterHead(node, cl, remaining \ {k}, distance, {clusterHead})
             ELSE ClosestClusterHead(node, cl, remaining \ {k}, minDistance, closest)

\* "Only add non-cluster-head nodes": the test FormClusters makes of a node,
\* after a faulty one that lets heads join as well.
IsClusterHeadNever(node, cl) == FALSE

IsClusterHead(node, cl) == node \in DOMAIN cl

RECURSIVE FormFrom(_, _)
FormFrom(node, cl) ==
    IF node >= NumNodes THEN cl
    ELSE IF IsClusterHead(node, cl) THEN FormFrom(node + 1, cl)
    ELSE LET closest == ClosestClusterHead(node, cl, DOMAIN cl, DoubleMax, {})
         IN  IF closest = {} THEN FormFrom(node + 1, cl)
             ELSE LET h == CHOOSE x \in closest : TRUE
                  IN  FormFrom(node + 1,
                               [cl EXCEPT ![h].members = Append(@, node)])

\* A faulty formation that, finding no head, makes node 0 one and assigns
\* the others to it.
FormClustersFallback(cl) ==
    IF DOMAIN cl = {}
    THEN FormFrom(0, [h \in {0} |->
                        [clusterHead |-> 0, backupHead |-> {}, members |-> <<>>]])
    ELSE FormFrom(0, cl)

FormClusters(cl) == FormFrom(0, cl)

\* ------------------------------------------------------------ communication
\* A handler's effect is threaded through a record
\*   [energy, sched, counter]: the ledger, the events it has scheduled so far
\*   (in order, each with its delay) and part_002's roundCounter.
Ev(kind, a, b, delay) == [kind |-> kind, a |-> a, b |-> b, delay |-> delay]

\* A faulty intra-cluster fire that bills the receiving head.
IntraChargesReceiver(st, memberNode, clusterHead) ==
    LET distance == GetDistanceFrom(memberNode, clusterHead)
        txPower == CalculateTransmissionPower(distance)
    IN  [st EXCEPT
            !.energy = UpdateEnergy(@, clusterHead, IntraEnergy(txPower)),
            !.sched = Append(@, Ev("Intra", memberNode, clusterHead, 1))]

IntraClusterCommunication(st, memberNode, clusterHead) ==
    LET distance == GetDistanceFrom(memberNode, clusterHead)
        txPower == CalculateTransmissionPower(distance)
    IN  [st EXCEPT
            !.energy = UpdateEnergy(@, memberNode, IntraEnergy(txPower)),
            !.sched = Append(@, Ev("Intra", memberNode, clusterHead, 1))]

\* part_000: the head is charged on every invocation.
InterClusterCommunication(st, clusterHead, baseStation) ==
    LET distance == GetDistanceFrom(clusterHead, baseStation)
        txPower == CalculateTransmissionPower(distance)
    IN  [st EXCEPT
            !.energy = UpdateEnergy(@, clusterHead, InterEnergy(txPower)),
            !.sched = Append(@, Ev("Inter", clusterHead, baseStation, 5))]

\* part_002: one counter for all heads; the head is charged when it is a
\* multiple of 5.
InterClusterCommunicationSampled(st, clusterHead, baseStation) ==
    LET counter == st.counter + 1
        distance == GetDistanceFrom(clusterHead, baseStation)
        txPower == CalculateTransmissionPower(distance)
    IN  [st EXCEPT
            !.counter = counter,
            !.energy = IF counter % 5 = 0
                       THEN UpdateEnergy(@, clusterHead, InterEnergy(txPower))
                       ELSE @,
            !.sched = Append(@, Ev("Inter", clusterHead, baseStation, 5))]

InterFor(prog, st, clusterHead, baseStation) ==
    IF prog = "part_000"
    THEN InterClusterCommunication(st, clusterHead, baseStation)
    ELSE InterClusterCommunicationSampled(st, clusterHead, baseStation)

RECURSIVE SetupMembers(_, _, _, _)
SetupMembers(st, members, i, clusterHead) ==
    IF i > Len(members) THEN st
    ELSE SetupMembers(IntraClusterCommunication(st, members[i], clusterHead),
                      members, i + 1, clusterHead)

RECURSIVE SetupFrom(_, _, _, _, _)
SetupFrom(prog, st, cl, remaining, baseStation) ==
    IF remaining = {} THEN st
    ELSE LET k == MinOf(remaining)
             clusterHead == cl[k].clusterHead
             afterMembers == SetupMembers(st, cl[k].members, 1, clusterHead)
         IN  SetupFrom(prog, InterFor(prog, afterMembers, clusterHead, baseStation),
                       cl, remaining \ {k}, baseStation)

SetupClusterCommunications(prog, st, cl, baseStation) ==
    SetupFrom(prog, st, cl, DOMAIN cl, baseStation)

\* ------------------------------------------------------------ failure check
IsFailed(energy) == DLess(energy, DeathLevel)

RemoveNode(members, node) == SelectSeq(members, LAMBDA m : m # node)

\* A faulty removal that stops at the first cluster listing the node.
RemoveFromFirst(cl, node) ==
    LET holders == {h \in DOMAIN cl : \E i \in 1 .. Len(cl[h].members) : cl[h].members[i] = node}
    IN  IF holders = {} THEN cl
        ELSE [cl EXCEPT ![MinOf(holders)].members = RemoveNode(@, node)]

RemoveFromAll(cl, node) ==
    [h \in DOMAIN cl |-> [cl[h] EXCEPT !.members = RemoveNode(@, node)]]

RECURSIVE CheckFrom(_, _, _)
CheckFrom(node, cl, levels) ==
    IF node >= NumNodes THEN cl
    ELSE IF IsFailed(levels[node])
         THEN CheckFrom(node + 1, RemoveFromAll(cl, node), levels)
         ELSE CheckFrom(node + 1, cl, levels)

\* A faulty check that also erases the entry of a head that has failed.
CheckNodeFailureDropHeads(cl, levels) ==
    LET pruned == CheckFrom(0, cl, levels)
    IN  [h \in {k \in DOMAIN pruned : ~IsFailed(levels[k])} |-> pruned[h]]

CheckNodeFailure(cl, levels) == CheckFrom(0, cl, levels)

\* ------------------------------------------------------------ schedulers
\* A faulty round scheduler that enqueues formation before election.
ScheduleClusterFormationSwapped ==
    << Ev("Form", 0, 0, 20), Ev("Elect", 0, 0, 20),
       Ev("Setup", 0, BaseStationId, 20), Ev("Round", 0, 0, 20) >>

ScheduleClusterFormation ==
    << Ev("Elect", 0, 0, 20), Ev("Form", 0, 0, 20),
       Ev("Setup", 0, BaseStationId, 20), Ev("Round", 0, 0, 20) >>

\* A faulty failure scheduler that runs on the round period.
ScheduleFailureCheckOnRounds ==
    << Ev("Check", 0, 0, 20), Ev("FailRound", 0, 0, 20) >>

ScheduleFailureCheck ==
    << Ev("Check", 0, 0, 10), Ev("FailRound", 0, 0, 10) >>

LogPeriodicEnergyLevels == << Ev("Log", 0, 0, 100) >>

\* Simulator::Schedule for a handler's requests: timestamps are Now + delay,
\* uids are handed out in the order of the calls.
Enqueue(sched, t, uid) ==
    { [ts |-> t + sched[i].delay, uid |-> uid + i - 1, kind |-> sched[i].kind,
       a |-> sched[i].a, b |-> sched[i].b] : i \in 1 .. Len(sched) }

\* What main() has scheduled when Simulator::Run() starts, in the order of
\* its calls.  part_002's main calls LogPeriodicEnergyLevels itself, before
\* anything is scheduled: the call logs the average and requests the next
\* one.
MainSchedule(prog) ==
    IF prog = "part_000"
    THEN ScheduleClusterFormation \o ScheduleFailureCheck
            \o << Ev("Stop", 0, 0, StopTime) >>
    ELSE LogPeriodicEnergyLevels \o ScheduleClusterFormation
            \o << Ev("Stop", 0, 0, StopTime) >>

\* The event Simulator::Run() executes next: smallest timestamp, then
\* smallest uid.
NextEvent ==
    CHOOSE e \in queue :
        \A f \in queue : e.ts < f.ts \/ (e.ts = f.ts /\ e.uid <= f.uid)

Ready(kind) == ~stopped /\ queue # {} /\ NextEvent.kind = kind

\* One executed event: the ledger, the table and the counter as the handler
\* leaves them, and the events it scheduled.
CommitLog(e, levels, cl, sched, counter, samples, reported, emits, depleted) ==
    /\ now' = e.ts
    /\ queue' = (queue \ {e}) \cup Enqueue(sched, e.ts, nextUid)
    /\ nextUid' = nextUid + Len(sched)
    /\ nodeEnergyLevels' = levels
    /\ clusters' = cl
    /\ roundCounter' = counter
    /\ last' = e
    /\ prevEnergy' = nodeEnergyLevels
    /\ prevClusters' = clusters
    /\ lastSamples' = samples
    /\ everFailed' = everFailed \cup {n \in Nodes : DLeq(levels[n], DeathLevel)}
    /\ lastReportedEnergy' = reported
    /\ electTimes' = IF e.kind = "Elect" THEN Append(electTimes, e.ts)
                                         ELSE electTimes
    /\ checkTimes' = IF e.kind = "Check" THEN Append(checkTimes, e.ts)
                                         ELSE checkTimes
    /\ emitted' = emits
    /\ depletionReports' = depleted
    /\ UNCHANGED <<program, stopped, zeroSince, call, ret>>

CommitReport(e, levels, cl, sched, counter, samples, reported) ==
    CommitLog(e, levels, cl, sched, counter, samples, reported, {}, depletionReports)

Commit(e, levels, cl, sched, counter, samples) ==
    CommitReport(e, levels, cl, sched, counter, samples, lastReportedEnergy)

\* No function is taken alone while a program runs.
NoCall == [fn |-> "none", distance |-> 0, isHighPriority |-> FALSE,
           members |-> <<>>, levels |-> <<>>, nodeId |-> 0, head |-> 0,
           table |-> <<>>]

Init ==
    /\ program \in Programs
    /\ now = 0
    /\ queue = Enqueue(MainSchedule(program), 0, 0)
    /\ nextUid = Len(MainSchedule(program))
    /\ stopped = FALSE
    /\ nodeEnergyLevels = InitializeNodeEnergyLevels
    /\ clusters = [h \in {} |-> 0]
    /\ roundCounter = 0
    /\ last = [ts |-> 0, uid |-> 0, kind |-> "main", a |-> 0, b |-> 0]
    /\ prevEnergy = InitializeNodeEnergyLevels
    /\ prevClusters = [h \in {} |-> 0]
    /\ lastSamples = {}
    /\ everFailed = {}
    /\ lastReportedEnergy = [n \in {} |-> 0]
    /\ electTimes = <<>>
    /\ checkTimes = <<>>
    /\ emitted = {}
    /\ depletionReports = [n \in Nodes |-> 0]
    /\ zeroSince = [n \in Nodes |-> -1]
    /\ call = NoCall
    /\ ret = {}

St == [energy |-> nodeEnergyLevels, sched |-> <<>>, counter |-> roundCounter]

ElectEvent ==
    /\ Ready("Elect")
    /\ \E samples \in SUBSET Nodes :
          Commit(NextEvent, nodeEnergyLevels,
                 ElectClusterHeads(clusters, samples, nodeEnergyLevels),
                 <<>>, roundCounter, samples)

FormEvent ==
    /\ Ready("Form")
    /\ Commit(NextEvent, nodeEnergyLevels, FormClusters(clusters), <<>>, roundCounter, {})

SetupEvent ==
    /\ Ready("Setup")
    /\ LET r == SetupClusterCommunications(program, St, clusters, NextEvent.b)
       IN  Commit(NextEvent, r.energy, clusters, r.sched, r.counter, {})

RoundEvent ==
    /\ Ready("Round")
    /\ Commit(NextEvent, nodeEnergyLevels, clusters, ScheduleClusterFormation, roundCounter, {})

IntraEvent ==
    /\ Ready("Intra")
    /\ LET r == IntraClusterCommunication(St, NextEvent.a, NextEvent.b)
       IN  Commit(NextEvent, r.energy, clusters, r.sched, r.counter, {})

InterEvent ==
    /\ Ready("Inter")
    /\ LET r == InterFor(program, St, NextEvent.a, NextEvent.b)
       IN  Commit(NextEvent, r.energy, clusters, r.sched, r.counter, {})

CheckEvent ==
    /\ Ready("Check")
    /\ Commit(NextEvent, nodeEnergyLevels,
              CheckNodeFailure(clusters, nodeEnergyLevels), <<>>, roundCounter, {})

FailRoundEvent ==
    /\ Ready("FailRound")
    /\ Commit(NextEvent, nodeEnergyLevels, clusters, ScheduleFailureCheck, roundCounter, {})

LogEvent ==
    /\ Ready("Log")
    /\ Commit(NextEvent, nodeEnergyLevels, clusters, LogPeriodicEnergyLevels, roundCounter, {})

StopEvent ==
    /\ Ready("Stop")
    /\ now' = NextEvent.ts
    /\ queue' = queue \ {NextEvent}
    /\ stopped' = TRUE
    /\ last' = NextEvent
    /\ prevEnergy' = nodeEnergyLevels
    /\ prevClusters' = clusters
    /\ lastSamples' = {}
    /\ emitted' = {}
    /\ UNCHANGED <<program, nextUid, nodeEnergyLevels, clusters, roundCounter,
                   everFailed, lastReportedEnergy, electTimes, checkTimes,
                   depletionReports, zeroSince, call, ret>>

Next ==
    \/ ElectEvent
    \/ FormEvent
    \/ SetupEvent
    \/ RoundEvent
    \/ IntraEvent
    \/ InterEvent
    \/ CheckEvent
    \/ FailRoundEvent
    \/ LogEvent
    \/ StopEvent

Spec == Init /\ [][Next]_vars

\* ------------------------------------------------------------ part_001
\* The energy-source program.  nodeEnergyLevels is here the remaining energy
\* of the nodes' BasicEnergySource objects, which the program only reads: the
\* WifiRadioEnergyModel installed on every device lowers it as time passes.
\* Its Cluster has no backupHead (carried as {}).
ScheduleClusterFormationSource ==
    << Ev("Elect", 0, 0, 20), Ev("Form", 0, 0, 20),
       Ev("LogEnergy", 0, 0, 50), Ev("RoundSource", 0, 0, 50) >>

BatchIntraClusterCommunication == << Ev("BatchIntra", 0, 0, 20) >>

BatchInterClusterCommunication == << Ev("BatchInter", 0, 0, 20) >>

\* (lastReported - current) >= lastReported * 0.05, both sides rounded;
\* DropFraction is the double of the literal 0.05.
DropFraction == Literal(5, 100)

SignificantDrop(lastValue, currentEnergy) ==
    DGeq(DSub(lastValue, currentEnergy), DMul(lastValue, DropFraction))

\* The sources LogEnergyLevels logs a line for: an entry is missing, or the
\* source has lost at least 5 % of the value reported last.
EnergyReports(reported, levels) ==
    {i \in Nodes : \/ i \notin DOMAIN reported
                   \/ SignificantDrop(reported[i], levels[i])}

\* lastReportedEnergy after one pass over the energy sources.
LogEnergyLevels(reported, levels) ==
    [i \in DOMAIN reported \cup Nodes |->
        IF i \in EnergyReports(reported, levels) THEN levels[i] ELSE reported[i]]

\* What main() has scheduled when Simulator::Run() starts, in the order of
\* its calls; main calls the two batch reports itself, on the empty table,
\* and each requests its next run.
MainScheduleSource ==
    ScheduleClusterFormationSource
        \o BatchIntraClusterCommunication \o BatchInterClusterCommunication
        \o << Ev("Stop", 0, 0, StopTime) >>

InitSource ==
    /\ program = "part_001"
    /\ now = 0
    /\ queue = Enqueue(MainScheduleSource, 0, 0)
    /\ nextUid = Len(MainScheduleSource)
    /\ stopped = FALSE
    /\ nodeEnergyLevels = InitializeNodeEnergyLevels
    /\ clusters = [h \in {} |-> 0]
    /\ roundCounter = 0
    /\ last = [ts |-> 0, uid |-> 0, kind |-> "main", a |-> 0, b |-> 0]
    /\ prevEnergy = InitializeNodeEnergyLevels
    /\ prevClusters = [h \in {} |-> 0]
    /\ lastSamples = {}
    /\ everFailed = {}
    /\ lastReportedEnergy = InitializeNodeEnergyLevels
    /\ electTimes = <<>>
    /\ checkTimes = <<>>
    /\ emitted = {}
    /\ depletionReports = [n \in Nodes |-> 0]
    /\ zeroSince = [n \in Nodes |-> -1]
    /\ call = NoCall
    /\ ret = {}

LogEnergyLevelsEvent ==
    /\ Ready("LogEnergy")
    /\ CommitLog(NextEvent, nodeEnergyLevels, clusters, <<>>, roundCounter, {},
                 LogEnergyLevels(lastReportedEnergy, nodeEnergyLevels),
                 EnergyReports(lastReportedEnergy, nodeEnergyLevels),
                 depletionReports)

RoundSourceEvent ==
    /\ Ready("RoundSource")
    /\ Commit(NextEvent, nodeEnergyLevels, clusters, ScheduleClusterFormationSource,
              roundCounter, {})

BatchIntraEvent ==
    /\ Ready("BatchIntra")
    /\ Commit(NextEvent, nodeEnergyLevels, clusters, BatchIntraClusterCommunication,
              roundCounter, {})

BatchInterEvent ==
    /\ Ready("BatchInter")
    /\ Commit(NextEvent, nodeEnergyLevels, clusters, BatchInterClusterCommunication,
              roundCounter, {})

\* ------------------------------------------------------------ part_001, second program
\* One LogEnergyLevel chain and one CheckNodeEnergyDepletion chain per node,
\* each on a 1 s period; lastReportedEnergy[n] is the double the chain of
\* node n carries.  main() calls Simulator::Stop before it schedules them.
\* SimulateLeachProtocol only logs what SetTransmissionPower returns.

\* A faulty log that overwrites the reported value on every tick.
LogEnergyLevelAlways(reported, levels, node) ==
    [reported EXCEPT ![node] = levels[node]]

LogEnergyLevel(reported, levels, node) ==
    IF SignificantDrop(reported[node], levels[node])
    THEN [reported EXCEPT ![node] = levels[node]]
    ELSE reported

\* A faulty depletion check that re-arms itself after its report as well.
CheckNodeEnergyDepletionRearms(levels, node) ==
    << Ev("Deplete", node, 0, 1) >>

\* What CheckNodeEnergyDepletion schedules.
CheckNodeEnergyDepletion(levels, node) ==
    IF DLeq(levels[node], Zero) THEN << >> ELSE << Ev("Deplete", node, 0, 1) >>

\* SetupEnergyModel's loop: per node a log and a depletion check, 1 s on.
SetupEnergyModelSchedule ==
    [i \in 1 .. 2 * NumNodes |->
        IF i % 2 = 1 THEN Ev("LogLevel", (i - 1) \div 2, 0, 1)
                     ELSE Ev("Deplete", (i - 1) \div 2, 0, 1)]

MainScheduleMonitor ==
    << Ev("Stop", 0, 0, StopTimeMonitor) >> \o SetupEnergyModelSchedule

InitMonitor ==
    /\ program = "part_001_second"
    /\ now = 0
    /\ queue = Enqueue(MainScheduleMonitor, 0, 0)
    /\ nextUid = Len(MainScheduleMonitor)
    /\ stopped = FALSE
    /\ nodeEnergyLevels = InitializeNodeEnergyLevels
    /\ clusters = [h \in {} |-> 0]
    /\ roundCounter = 0
    /\ last = [ts |-> 0, uid |-> 0, kind |-> "main", a |-> 0, b |-> 0]
    /\ prevEnergy = InitializeNodeEnergyLevels
    /\ prevClusters = [h \in {} |-> 0]
    /\ lastSamples = {}
    /\ everFailed = {}
    /\ lastReportedEnergy = InitializeNodeEnergyLevels
    /\ electTimes = <<>>
    /\ checkTimes = <<>>
    /\ emitted = {}
    /\ depletionReports = [n \in Nodes |-> 0]
    /\ zeroSince = [n \in Nodes |-> -1]
    /\ call = NoCall
    /\ ret = {}

LogLevelEvent ==
    /\ Ready("LogLevel")
    /\ LET node == NextEvent.a
       IN  CommitLog(NextEvent, nodeEnergyLevels, clusters,
                     << Ev("LogLevel", node, 0, 1) >>, roundCounter, {},
                     LogEnergyLevel(lastReportedEnergy, nodeEnergyLevels, node),
                     IF SignificantDrop(lastReportedEnergy[node], nodeEnergyLevels[node])
                     THEN {node} ELSE {},
                     depletionReports)

DepleteEvent ==
    /\ Ready("Deplete")
    /\ LET node == NextEvent.a
           depleted == DLeq(nodeEnergyLevels[node], Zero)
       IN  CommitLog(NextEvent, nodeEnergyLevels, clusters,
                     CheckNodeEnergyDepletion(nodeEnergyLevels, node),
                     roundCounter, {}, lastReportedEnergy,
                     IF depleted THEN {node} ELSE {},
                     IF depleted THEN [depletionReports EXCEPT ![node] = @ + 1]
                                 ELSE depletionReports)

\* ------------------------------------------------------------ the radios
\* BasicEnergySource with a WifiRadioEnergyModel: while simulated time passes
\* before the next event, one node's source loses RadioStep or all it has
\* left; it never goes below 0 and an empty source stays empty.
RadioStepEnergy == Joules(RadioStep)

\* How many steps of the radio lie between a full source and this level.
RECURSIVE StepsBelow(_, _, _)
StepsBelow(level, from, k) ==
    IF level = from \/ k >= MaxRadioSteps THEN k
    ELSE StepsBelow(level, DSub(from, RadioStepEnergy), k + 1)

RECURSIVE RadioStepsTaken(_, _)
RadioStepsTaken(levels, n) ==
    IF n >= NumNodes THEN 0
    ELSE (IF levels[n] = Zero THEN 1 ELSE StepsBelow(levels[n], FullEnergy, 0))
            + RadioStepsTaken(levels, n + 1)

RadioDrain ==
    /\ ~stopped
    /\ queue # {}
    /\ NextEvent.ts > now
    /\ RadioStepsTaken(nodeEnergyLevels, 0) < MaxRadioSteps
    /\ \E n \in Nodes : \E empties \in BOOLEAN :
          /\ DGreater(nodeEnergyLevels[n], Zero)
          /\ empties \/ DGeq(nodeEnergyLevels[n], RadioStepEnergy)
          /\ nodeEnergyLevels' =
                [nodeEnergyLevels EXCEPT
                    ![n] = IF empties THEN Zero ELSE DSub(@, RadioStepEnergy)]
          /\ zeroSince' = IF nodeEnergyLevels'[n] = Zero
                          THEN [zeroSince EXCEPT ![n] = now]
                          ELSE zeroSince
          /\ last' = [ts |-> now, uid |-> 0, kind |-> "Radio", a |-> n, b |-> 0]
    /\ prevEnergy' = nodeEnergyLevels
    /\ prevClusters' = clusters
    /\ lastSamples' = {}
    /\ emitted' = {}
    /\ everFailed' = everFailed \cup {n \in Nodes : DLeq(nodeEnergyLevels'[n], DeathLevel)}
    /\ UNCHANGED <<program, now, queue, nextUid, stopped, clusters, roundCounter,
                   lastReportedEnergy, electTimes, checkTimes,
                   depletionReports, call, ret>>

NextSource ==
    \/ ElectEvent
    \/ FormEvent
    \/ LogEnergyLevelsEvent
    \/ RoundSourceEvent
    \/ BatchIntraEvent
    \/ BatchInterEvent
    \/ LogLevelEvent
    \/ DepleteEvent
    \/ RadioDrain
    \/ StopEvent

SpecSource == (InitSource \/ InitMonitor) /\ [][NextSource]_vars

\* ------------------------------------------------------------ functions alone
\* The functions whose contract is about arguments the two running programs
\* never pass (a node id without a ledger entry, a member list handed to the
\* backup scan, a distance beyond the deployment, a table that lists a node
\* twice, an energy of exactly 5.0 J at a failure check) are also taken alone: the
\* initial state draws the arguments, one action applies the function.
EnergySamples == {Zero, DeathLevel, FullEnergy}

MemberLists ==
    {<<>>} \cup {<<a>> : a \in Nodes} \cup {<<a, b>> : a \in Nodes, b \in Nodes}

PartialLedgers == UNION {[D -> EnergySamples] : D \in SUBSET Nodes}

PowerCalls ==
    {[NoCall EXCEPT !.fn = "CalculateTransmissionPower", !.distance = d] :
        d \in 0 .. MaxDistanceSq}

BackupCalls ==
    {[NoCall EXCEPT !.fn = "FindNodeWithHighEnergy", !.members = m, !.levels = l] :
        m \in MemberLists, l \in [Nodes -> EnergySamples]}

PriorityCalls ==
    {[NoCall EXCEPT !.fn = "SetTransmissionPower",
                    !.distance = d, !.isHighPriority = p] :
        d \in 0 .. MaxDistanceSq, p \in BOOLEAN}

IntraCalls ==
    {[NoCall EXCEPT !.fn = "IntraClusterCommunication",
                    !.levels = l, !.nodeId = n, !.head = h] :
        l \in PartialLedgers, n \in Nodes, h \in Nodes}

\* Tables the programs never build: node n is listed by two clusters, and
\* twice by one of them.
ErroneousTables ==
    { [k \in {h, g} |->
          [clusterHead |-> k, backupHead |-> {},
           members |-> IF k = h THEN <<n>> ELSE <<n, n>>]] :
      <<h, g, n>> \in {t \in Nodes \X Nodes \X Nodes :
                          t[1] # t[2] /\ t[1] # t[3] /\ t[2] # t[3]} }

\* The tables of one cluster: a head and a list of other nodes.
OneClusterTables ==
    { [k \in {h} |-> [clusterHead |-> h, backupHead |-> {}, members |-> m]] :
      <<h, m>> \in {t \in Nodes \X MemberLists :
                        \A i \in 1 .. Len(t[2]) : t[2][i] # t[1]} }

CheckCalls ==
    {[NoCall EXCEPT !.fn = "CheckNodeFailure", !.table = t, !.levels = l] :
        t \in ErroneousTables \cup OneClusterTables, l \in [Nodes -> EnergySamples]}

InitCalls ==
    /\ program = "part_000"
    /\ now = 0
    /\ queue = {}
    /\ nextUid = 0
    /\ stopped = FALSE
    /\ nodeEnergyLevels = InitializeNodeEnergyLevels
    /\ clusters = [h \in {} |-> 0]
    /\ roundCounter = 0
    /\ last = [ts |-> 0, uid |-> 0, kind |-> "main", a |-> 0, b |-> 0]
    /\ prevEnergy = InitializeNodeEnergyLevels
    /\ prevClusters = [h \in {} |-> 0]
    /\ lastSamples = {}
    /\ everFailed = {}
    /\ lastReportedEnergy = [n \in {} |-> 0]
    /\ electTimes = <<>>
    /\ checkTimes = <<>>
    /\ emitted = {}
    /\ depletionReports = [n \in Nodes |-> 0]
    /\ zeroSince = [n \in Nodes |-> -1]
    /\ call \in PowerCalls \cup PriorityCalls \cup BackupCalls \cup IntraCalls
                    \cup CheckCalls
    /\ ret = {}

Returns(fn, value) ==
    /\ call.fn = fn
    /\ ret = {}
    /\ ret' = {value}
    /\ UNCHANGED <<program, now, queue, nextUid, stopped, nodeEnergyLevels,
                   clusters, roundCounter, last, prevEnergy, prevClusters,
                   lastSamples, everFailed, lastReportedEnergy, electTimes,
                   checkTimes, emitted, depletionReports, zeroSince, call>>

PowerCall ==
    Returns("CalculateTransmissionPower", CalculateTransmissionPower(call.distance))

PriorityCall ==
    Returns("SetTransmissionPower",
            SetTransmissionPower(call.distance, call.isHighPriority))

BackupCall ==
    Returns("FindNodeWithHighEnergy", FindNodeWithHighEnergy(call.members, call.levels))

IntraCall ==
    Returns("IntraClusterCommunication",
            IntraClusterCommunication([energy |-> call.levels, sched |-> <<>>, counter |-> 0],
                                      call.nodeId, call.head))

CheckCall ==
    Returns("CheckNodeFailure", CheckNodeFailure(call.table, call.levels))

NextCalls ==
    \/ PowerCall
    \/ PriorityCall
    \/ BackupCall
    \/ IntraCall
    \/ CheckCall

SpecCalls == InitCalls /\ [][NextCalls]_vars

\* ------------------------------------------------------------ claims
Members(cl, h) == {cl[h].members[i] : i \in 1 .. Len(cl[h].members)}
AllMembers(cl) == UNION {Members(cl, h) : h \in DOMAIN cl}

\* What one fire of the intra-cluster chain asks of its member, and what one
\* fire of part_000's inter-cluster chain asks of its head.
IntraCharge(e) == IntraEnergy(CalculateTransmissionPower(GetDistanceFrom(e.a, e.b)))
InterCharge(e) == InterEnergy(CalculateTransmissionPower(GetDistanceFrom(e.a, e.b)))

\* An energy less a charge, down to the clamp at 0.
LessCharge(energy, charge) ==
    IF DGreater(charge, energy) THEN Zero ELSE DSub(energy, charge)

\* C1: every node's remaining energy stays between 0 and initialEnergy in
\* every reachable state, and a fire of a communication chain that asks for
\* more than its sender has left leaves the sender at exactly 0.
C1_EnergyWithinCapacity ==
    /\ \A n \in Nodes :
          DGeq(nodeEnergyLevels[n], Zero) /\ DLeq(nodeEnergyLevels[n], FullEnergy)
    /\ (last.kind = "Intra" /\ DGreater(IntraCharge(last), prevEnergy[last.a]))
          => nodeEnergyLevels[last.a] = Zero
    /\ (last.kind = "Inter" /\ program = "part_000"
            /\ DGreater(InterCharge(last), prevEnergy[last.a]))
          => nodeEnergyLevels[last.a] = Zero

C1_Witness ==
    /\ last.kind = "Intra"
    /\ DGreater(prevEnergy[last.a], Zero)
    /\ DGreater(IntraCharge(last), prevEnergy[last.a])
    /\ nodeEnergyLevels[last.a] = Zero

\* C2: no event raises any node's remaining energy.
C2_EnergyNeverIncreases ==
    [][\A n \in Nodes : DLeq(nodeEnergyLevels'[n], nodeEnergyLevels[n])]_vars

C2_Witness ==
    /\ last.kind \in {"Intra", "Inter", "Setup"}
    /\ \E n \in Nodes : DLess(nodeEnergyLevels[n], prevEnergy[n])

\* The ledger with node n at exactly 10.0 J.
AtFloor(levels, n) == [levels EXCEPT ![n] = EligibilityLevel]

\* C3: right after ElectClusterHeads every key of the cluster table is a
\* node whose energy at that election is strictly above 10.0 J; and had a
\* node been at exactly 10.0 J in that election, no set of draws would have
\* made it a key.
C3_HeadsAboveEligibilityFloor ==
    last.kind = "Elect" =>
        /\ \A h \in DOMAIN clusters : DGreater(nodeEnergyLevels[h], EligibilityLevel)
        /\ \A n \in Nodes : \A samples \in SUBSET Nodes :
              n \notin DOMAIN ElectClusterHeads(prevClusters, samples,
                                               AtFloor(nodeEnergyLevels, n))

C3_Witness ==
    /\ last.kind = "Elect"
    /\ DOMAIN clusters # {}
    /\ \E n \in lastSamples :
          DLeq(nodeEnergyLevels[n], EligibilityLevel) /\ n \notin DOMAIN clusters

\* C4: right after FormClusters every non-head node is a member of exactly
\* one cluster, the one of the nearest head, the lowest head id among
\* equally near ones; with no head it is a member of none.
NearestHeads(n, heads) ==
    {h \in heads : \A g \in heads : GetDistanceFrom(n, h) <= GetDistanceFrom(n, g)}

C4_MembersJoinNearestHead ==
    last.kind = "Form" =>
        \A n \in Nodes \ DOMAIN clusters :
            \A h \in DOMAIN clusters :
                (n \in Members(clusters, h)) <=> (h = MinOf(NearestHeads(n, DOMAIN clusters)))

C4_Witness ==
    /\ last.kind = "Form"
    /\ \E n \in Nodes \ DOMAIN clusters :
          /\ Cardinality(NearestHeads(n, DOMAIN clusters)) >= 2
          /\ n \in Members(clusters, MinOf(NearestHeads(n, DOMAIN clusters)))

\* C5: in every reachable state the cluster table is well formed: heads are
\* distinct, no head is a member, no node is a member of two clusters and no
\* member list holds a node twice.
C5_TableWellFormed ==
    /\ \A h \in DOMAIN clusters : clusters[h].clusterHead = h
    /\ AllMembers(clusters) \cap DOMAIN clusters = {}
    /\ \A h \in DOMAIN clusters : \A g \in DOMAIN clusters :
          h # g => Members(clusters, h) \cap Members(clusters, g) = {}
    /\ \A h \in DOMAIN clusters :
          Cardinality(Members(clusters, h)) = Len(clusters[h].members)

C5_Witness ==
    /\ last.kind = "Form"
    /\ now >= 40
    /\ \E e \in queue : e.kind = "Intra"
    /\ AllMembers(clusters) # {}
    /\ Cardinality(DOMAIN clusters) >= 2

C7_FailedNodeStaysUnassigned ==
    (program = "part_000" /\ last.kind = "Form") =>
        everFailed \cap AllMembers(clusters) = {}

\* C8: right after ElectClusterHeads no node whose energy has ever been at
\* or below 5.0 J is a key of the cluster table.
C8_FailedNodeNeverElected ==
    last.kind = "Elect" => everFailed \cap DOMAIN clusters = {}

C8_Witness ==
    /\ last.kind = "Elect"
    /\ lastSamples = Nodes
    /\ everFailed # {}
    /\ DOMAIN clusters # {}

\* C9: the event executed right after ElectClusterHeads is FormClusters and
\* the one right after FormClusters is SetupClusterCommunications, each with
\* the timestamp of the election.
C9_RoundStepsConsecutive ==
    /\ last.kind = "Elect" =>
          queue # {} /\ NextEvent.kind = "Form" /\ NextEvent.ts = last.ts
    /\ last.kind = "Form" =>
          queue # {} /\ NextEvent.kind = "Setup" /\ NextEvent.ts = last.ts

C9_Witness ==
    /\ last.kind = "Form"
    /\ \E e \in queue : e.ts = now /\ e.kind = "Intra"
    /\ \E e \in queue : e.ts = now /\ e.kind = "Inter"
    /\ \E e \in queue : e.ts = now /\ e.kind = "Check"

\* C10 as claimed: in the failure-aware program a fire of the intra-cluster
\* chain for (member, head) that drains energy finds head in the cluster
\* table and member in its member list.
C10_FireOnlyForCurrentPair ==
    (program = "part_000" /\ last.kind = "Intra"
        /\ DLess(nodeEnergyLevels[last.a], prevEnergy[last.a])) =>
        /\ last.b \in DOMAIN clusters
        /\ last.a \in Members(clusters, last.b)

\* C11 as claimed: in the sampled program every fire of the inter-cluster
\* chain takes 0.2 * txPower from its head (down to the clamp at 0), whatever
\* the value of the shared invocation counter.
C11_SampledInterChargesEveryFire ==
    (program = "part_002" /\ last.kind = "Inter") =>
        nodeEnergyLevels[last.a] = LessCharge(prevEnergy[last.a], InterCharge(last))

\* C12: a fire of the intra-cluster chain takes 0.1 * txPower from its member
\* and a fire of part_000's inter-cluster chain takes 0.2 * txPower from its
\* head (down to the clamp at 0); every other ledger entry, the receiving head
\* or sink included, and the cluster table are as they were before the event.
C12_OnlySenderCharged ==
    /\ last.kind = "Intra" =>
          /\ nodeEnergyLevels =
                [prevEnergy EXCEPT ![last.a] = LessCharge(@, IntraCharge(last))]
          /\ clusters = prevClusters
    /\ (last.kind = "Inter" /\ program = "part_000") =>
          /\ nodeEnergyLevels =
                [prevEnergy EXCEPT ![last.a] = LessCharge(@, InterCharge(last))]
          /\ clusters = prevClusters

C12_Witness ==
    /\ program = "part_000"
    /\ last.kind = "Inter"
    /\ last.a # last.b
    /\ clusters[last.a].members # <<>>
    /\ nodeEnergyLevels[last.a] = DSub(prevEnergy[last.a], InterCharge(last))
    /\ DGreater(nodeEnergyLevels[last.a], Zero)
    /\ \E e \in queue : e.kind = "Intra" /\ e.b = last.a

\* C13: a fire of the intra-cluster chain whose member has no entry in the
\* ledger leaves the ledger as it was (same entries, same values, none for
\* the member) and still re-arms the chain for the same pair one second on.
C13_UnknownIdIsNoOp ==
    (call.fn = "IntraClusterCommunication" /\ call.nodeId \notin DOMAIN call.levels) =>
        \A r \in ret :
            /\ DOMAIN r.energy = DOMAIN call.levels
            /\ \A n \in DOMAIN call.levels : r.energy[n] = call.levels[n]
            /\ r.sched = <<Ev("Intra", call.nodeId, call.head, 1)>>

C13_Witness ==
    /\ call.fn = "IntraClusterCommunication"
    /\ call.nodeId \notin DOMAIN call.levels
    /\ call.head \in DOMAIN call.levels
    /\ \E n \in DOMAIN call.levels : call.levels[n] = DeathLevel
    /\ \E r \in ret : r.energy = call.levels

\* The first member, in list order, whose energy is the largest of a
\* non-empty list.
FirstOfMaximalEnergy(members, levels) ==
    LET top == {i \in 1 .. Len(members) :
                    \A j \in 1 .. Len(members) :
                        DLeq(levels[members[j]], levels[members[i]])}
    IN  members[MinOf(top)]

\* C14 as claimed: FindNodeWithHighEnergy returns nothing for the empty list
\* and, for every other list, the first member of maximal energy.
C14_BackupAbsentOnlyIfEmpty ==
    call.fn = "FindNodeWithHighEnergy" =>
        \A r \in ret :
            IF call.members = <<>> THEN r = {}
            ELSE r = {FirstOfMaximalEnergy(call.members, call.levels)}

\* C14, amended: FindNodeWithHighEnergy returns nothing exactly when no
\* member has energy above 0 (the empty list included) and otherwise the
\* first member of maximal energy.
C14_BackupIsFirstMaximumAboveZero ==
    call.fn = "FindNodeWithHighEnergy" =>
        \A r \in ret :
            IF \A i \in 1 .. Len(call.members) : call.levels[call.members[i]] = Zero
            THEN r = {}
            ELSE r = {FirstOfMaximalEnergy(call.members, call.levels)}

C14_Witness ==
    /\ call.fn = "FindNodeWithHighEnergy"
    /\ Len(call.members) = 2
    /\ call.members[1] # call.members[2]
    /\ call.levels[call.members[1]] = DeathLevel
    /\ call.levels[call.members[2]] = DeathLevel
    /\ ret = {{call.members[1]}}

\* C20: CalculateTransmissionPower returns 1.5 beyond 50.0, 1.2 beyond 20.0
\* and up to 50.0, and 0.8 up to 20.0, the two boundary distances included
\* (the call carries the square of the distance).
C20_PowerTiers ==
    call.fn = "CalculateTransmissionPower" =>
        \A r \in ret :
            /\ call.distance > 50 * 50 => r = 15
            /\ (call.distance > 20 * 20 /\ call.distance <= 50 * 50) => r = 12
            /\ call.distance <= 20 * 20 => r = 8

C20_Witness ==
    /\ call.fn = "CalculateTransmissionPower"
    /\ call.distance = 50 * 50
    /\ ret = {12}

\* C15: when a round's FormClusters has run, electing and forming again from
\* the ledger and the table of that state rebuilds, for every set of draws,
\* the same table on a first and on a second run, and with the draws that
\* elected the round's heads it rebuilds the round's own table (heads, member
\* lists and their order).
C15_RerunRebuildsSameTable ==
    last.kind = "Form" =>
        /\ \A samples \in SUBSET Nodes :
              LET first == FormClusters(
                              ElectClusterHeads(clusters, samples, nodeEnergyLevels))
                  second == FormClusters(
                              ElectClusterHeads(first, samples, nodeEnergyLevels))
              IN  first = second
        /\ FormClusters(ElectClusterHeads(clusters, DOMAIN clusters, nodeEnergyLevels))
              = clusters

C15_Witness ==
    /\ last.kind = "Form"
    /\ now > 20
    /\ Cardinality(DOMAIN clusters) = 2
    /\ AllMembers(clusters) # {}
    /\ \E n \in Nodes : DLeq(nodeEnergyLevels[n], EligibilityLevel)
    /\ FormClusters(ElectClusterHeads(clusters, DOMAIN clusters, nodeEnergyLevels))
          = clusters

\* C16: an election in which every node's draw succeeds (what
\* clusterHeadProbability = 1.0 forces) while every node is at full capacity
\* makes every node a head with an empty member list and no backup head, and
\* a FormClusters that finds every node a head adds no member.
C16_EveryNodeHeadNoMembers ==
    /\ (last.kind = "Elect" /\ lastSamples = Nodes
            /\ \A n \in Nodes : nodeEnergyLevels[n] = FullEnergy) =>
          /\ DOMAIN clusters = Nodes
          /\ \A h \in Nodes :
                /\ clusters[h].clusterHead = h
                /\ clusters[h].members = <<>>
                /\ clusters[h].backupHead = {}
    /\ (last.kind = "Form" /\ DOMAIN prevClusters = Nodes) =>
          /\ clusters = prevClusters
          /\ AllMembers(clusters) = {}

C16_Witness ==
    /\ last.kind = "Form"
    /\ now = 20
    /\ DOMAIN prevClusters = Nodes
    /\ \A n \in Nodes : nodeEnergyLevels[n] = FullEnergy
    /\ DOMAIN clusters = Nodes
    /\ \A h \in Nodes : clusters[h].members = <<>> /\ clusters[h].backupHead = {}

\* One step of a round whose election made no head.
EmptyRoundStep ==
    /\ (Ready("Form") /\ DOMAIN clusters = {}) => DOMAIN clusters' = {}
    /\ (Ready("Setup") /\ DOMAIN clusters = {}) =>
          /\ nodeEnergyLevels' = nodeEnergyLevels
          /\ roundCounter' = roundCounter
          /\ queue' = queue \ {NextEvent}
          /\ nextUid' = nextUid
          /\ NextEvent'.kind = "Round" /\ NextEvent'.ts = now'
    /\ Ready("Round") =>
          \E e \in queue' : e.kind = "Elect" /\ e.ts = now' + 20 /\ e \notin queue

\* C17: when the table holds no head, the round's FormClusters leaves it
\* empty; the round's SetupClusterCommunications changes no energy and
\* schedules nothing (no chain is started), and the event that follows it is
\* the round scheduler at the same time, which arms an election 20 s later.
C17_EmptyRoundIsNoOp == [][EmptyRoundStep]_vars

C17_Witness ==
    /\ last.kind = "Elect"
    /\ now = 40
    /\ DOMAIN prevClusters = {}
    /\ \A e \in queue : e.kind \notin {"Intra", "Inter"}
    /\ \A n \in Nodes : nodeEnergyLevels[n] = FullEnergy
    /\ DOMAIN clusters # {}

\* C18: right after ElectClusterHeads the keys of the table are exactly the
\* nodes whose draw succeeded and whose energy is above the floor, each entry
\* is that head's with an empty member list, and so no entry of a node not
\* elected now and no membership of the table before the election is left.
C18_TableIsThisRoundsHeads ==
    last.kind = "Elect" =>
        /\ DOMAIN clusters =
              {n \in lastSamples : DGreater(nodeEnergyLevels[n], EligibilityLevel)}
        /\ \A h \in DOMAIN clusters :
              clusters[h].clusterHead = h /\ clusters[h].members = <<>>
        /\ AllMembers(clusters) = {}
        /\ \A h \in DOMAIN prevClusters \ lastSamples : h \notin DOMAIN clusters

C18_Witness ==
    /\ last.kind = "Elect"
    /\ AllMembers(prevClusters) # {}
    /\ \E h \in DOMAIN prevClusters : h \notin DOMAIN clusters
    /\ \E h \in DOMAIN prevClusters :
          h \in DOMAIN clusters /\ prevClusters[h].members # <<>>
    /\ \E h \in DOMAIN clusters : h \notin DOMAIN prevClusters

\* C19 as claimed: in each of the three programs with a round scheduler, at
\* every moment before the stop time the elections run so far are those of
\* the times 20, 40, 60, ... up to the current time, and an election or a
\* round scheduler is pending.  (The election due at the stop time itself is
\* requested after the stop and is left out.)
C19_ElectionEveryTwentySeconds ==
    (program \in {"part_000", "part_001", "part_002"} /\ now < StopTime) =>
        /\ Len(electTimes) = now \div 20
        /\ \A i \in 1 .. Len(electTimes) : electTimes[i] = 20 * i
        /\ \E e \in queue : e.kind \in {"Elect", "Round", "RoundSource"}

\* C21 as claimed: SetTransmissionPower returns 1.5 for high priority at
\* every distance and otherwise 1.2 beyond 50.0, 1.2 beyond 20.0 and up to
\* 50.0, and 0.8 up to 20.0 (the call carries the square of the distance).
C21_PriorityPowerThreeTiers ==
    call.fn = "SetTransmissionPower" =>
        \A r \in ret :
            /\ call.isHighPriority => r = 15
            /\ (~call.isHighPriority /\ call.distance > 50 * 50) => r = 12
            /\ (~call.isHighPriority /\ call.distance > 20 * 20
                    /\ call.distance <= 50 * 50) => r = 12
            /\ (~call.isHighPriority /\ call.distance <= 20 * 20) => r = 8

\* C21, amended: SetTransmissionPower returns 1.5 for high priority at every
\* distance and otherwise 1.2 beyond 50.0 and 0.8 up to 50.0; 20.0 is not a
\* threshold of this policy.
C21_PriorityPowerTwoTiers ==
    call.fn = "SetTransmissionPower" =>
        \A r \in ret :
            /\ call.isHighPriority => r = 15
            /\ (~call.isHighPriority /\ call.distance > 50 * 50) => r = 12
            /\ (~call.isHighPriority /\ call.distance <= 50 * 50) => r = 8

C21_Witness ==
    /\ call.fn = "SetTransmissionPower"
    /\ ~call.isHighPriority
    /\ call.distance = 50 * 50
    /\ ret = {8}

\* C22: in the failure-aware program no cluster of the table has a backup
\* head, in any reachable state: not after the election, and not after
\* formation, communication or a failure check have run on the table.
C22_BackupHeadAlwaysAbsent ==
    program = "part_000" =>
        \A h \in DOMAIN clusters : clusters[h].backupHead = {}

C22_Witness ==
    /\ program = "part_000"
    /\ last.kind = "Check"
    /\ \E h \in DOMAIN clusters :
          /\ Len(clusters[h].members) = 2
          /\ \A i \in 1 .. 2 :
                DGreater(nodeEnergyLevels[clusters[h].members[i]], DeathLevel)
          /\ clusters[h].backupHead = {}

\* The pending fires of the chains a node sends on.
PendingChains(kind, n) == {e \in queue : e.kind = kind /\ e.a = n}

\* C23 as claimed: at any time at most one fire of the intra-cluster chain
\* is pending for a node as member and at most one fire of the inter-cluster
\* chain for a node as head.
C23_OneChainPerNode ==
    \A n \in Nodes :
        /\ Cardinality(PendingChains("Intra", n)) <= 1
        /\ Cardinality(PendingChains("Inter", n)) <= 1

\* The members of a list whose energy is above the failure threshold, in
\* list order.
AboveThreshold(members, levels) ==
    SelectSeq(members, LAMBDA m : DGreater(levels[m], DeathLevel))

\* C24: CheckNodeFailure leaves the keys of the table, every entry's head and
\* backup head, and the whole ledger (entries and values) as they were; it
\* adds no member, and in every cluster the members above 5.0 J are the same,
\* in the same order, as before.  The keys also stay when the check is run
\* on the table with a head's own energy at 5.0 J or at 0.
C24_CheckOnlyPrunesMembers ==
    last.kind = "Check" =>
        /\ \A h \in DOMAIN prevClusters : \A low \in {Zero, DeathLevel} :
              LET levels == [prevEnergy EXCEPT ![h] = low]
                  pruned == CheckNodeFailure(prevClusters, levels)
              IN  /\ DOMAIN pruned = DOMAIN prevClusters
                  /\ pruned[h].clusterHead = h
        /\ DOMAIN clusters = DOMAIN prevClusters
        /\ nodeEnergyLevels = prevEnergy
        /\ DOMAIN nodeEnergyLevels = Nodes
        /\ \A h \in DOMAIN clusters :
              /\ clusters[h].clusterHead = prevClusters[h].clusterHead
              /\ clusters[h].backupHead = prevClusters[h].backupHead
              /\ Members(clusters, h) \subseteq Members(prevClusters, h)
              /\ AboveThreshold(clusters[h].members, nodeEnergyLevels)
                    = AboveThreshold(prevClusters[h].members, prevEnergy)

C24_Witness ==
    /\ last.kind = "Check"
    /\ \E h \in DOMAIN clusters :
          /\ clusters[h].members # prevClusters[h].members
          /\ clusters[h].members # <<>>
          /\ \E i \in 1 .. Len(clusters[h].members) :
                DGreater(nodeEnergyLevels[clusters[h].members[i]], DeathLevel)

\* C25: in the failure-aware program the failure checks run so far are those
\* of the times 10, 20, 30, ... up to the current time (the one of the current
\* time may still be pending, and stays pending when the stop, requested
\* before it, has run at that time), and a check that runs at a multiple of
\* 20 finds that instant's election, formation and communication setup
\* already done.
C25_CheckEveryTenAfterRound ==
    program = "part_000" =>
        /\ \A i \in 1 .. Len(checkTimes) : checkTimes[i] = 10 * i
        /\ \/ Len(checkTimes) = now \div 10
           \/ /\ Len(checkTimes) = now \div 10 - 1
              /\ now % 10 = 0
              /\ stopped => now = StopTime
              /\ \E e \in queue : e.kind = "Check" /\ e.ts = now
        /\ (last.kind = "Check" /\ now % 20 = 0) =>
              /\ Len(electTimes) = now \div 20
              /\ electTimes[Len(electTimes)] = now
              /\ \A e \in queue :
                    e.kind \in {"Elect", "Form", "Setup"} => e.ts > now

C25_Witness ==
    /\ program = "part_000"
    /\ last.kind = "Check"
    /\ now = 60
    /\ checkTimes = <<10, 20, 30, 40, 50, 60>>
    /\ electTimes = <<20, 40, 60>>
    /\ AllMembers(prevClusters) # AllMembers(clusters)


\* The step that executes the next event of the queue, when it is of this kind.
Executes(kind) == Ready(kind) /\ last' = NextEvent

\* What one node's report must be after a reporter ran for it.
ReportStep(i) ==
    LET due == \/ i \notin DOMAIN lastReportedEnergy
               \/ DGeq(DSub(lastReportedEnergy[i], nodeEnergyLevels[i]),
                       DMul(Literal(5, 100), lastReportedEnergy[i]))
    IN  /\ i \in emitted' <=> due
        /\ i \in DOMAIN lastReportedEnergy'
        /\ lastReportedEnergy'[i] =
              IF due THEN nodeEnergyLevels[i] ELSE lastReportedEnergy[i]

ReporterStep ==
    /\ Executes("LogEnergy") => \A i \in Nodes : ReportStep(i)
    /\ Executes("LogLevel") =>
          /\ ReportStep(NextEvent.a)
          /\ \A i \in Nodes \ {NextEvent.a} :
                /\ i \notin emitted'
                /\ lastReportedEnergy'[i] = lastReportedEnergy[i]

\* C26: a run of LogEnergyLevels (for every node) or of LogEnergyLevel (for
\* its node) emits a report for the node exactly when no value was reported
\* for it before or the energy is at least 5 % of the last reported value
\* below that value; the last reported value becomes the current energy when
\* it reports and stays as it was otherwise.
C26_ReportOnFivePercentDrop == [][ReporterStep]_vars

\* C26 case: the per-node reporter has just reported a value two radio steps
\* below the initial energy, after at least one silent tick: the first step
\* alone does not meet the test (12.0 - 11.4 is rounded to
\* 0.5999999999999996, below 12.0 * 0.05 = 0.6000000000000001), the two
\* together do.
C26_Witness ==
    /\ last.kind = "LogLevel"
    /\ now >= 2
    /\ emitted = {last.a}
    /\ nodeEnergyLevels[last.a] = DSub(DSub(FullEnergy, RadioStepEnergy), RadioStepEnergy)
    /\ lastReportedEnergy[last.a] = nodeEnergyLevels[last.a]
    /\ zeroSince[last.a] = -1


\* C27 as claimed: a reporter that runs for a node whose energy is the value
\* reported last emits nothing for it; in particular an energy of 0 that was
\* reported once is not reported again.
SilentWhenUnchangedStep ==
    /\ Executes("LogEnergy") =>
          \A i \in Nodes :
              (i \in DOMAIN lastReportedEnergy
                  /\ lastReportedEnergy[i] = nodeEnergyLevels[i]) => i \notin emitted'
    /\ (Executes("LogLevel")
          /\ lastReportedEnergy[NextEvent.a] = nodeEnergyLevels[NextEvent.a])
              => NextEvent.a \notin emitted'

C27_SilentWhenUnchanged == [][SilentWhenUnchangedStep]_vars

\* The same with the empty source left out: holds.
SilentWhenUnchangedAboveZeroStep ==
    /\ Executes("LogEnergy") =>
          \A i \in Nodes :
              (i \in DOMAIN lastReportedEnergy /\ DGreater(nodeEnergyLevels[i], Zero)
                  /\ lastReportedEnergy[i] = nodeEnergyLevels[i]) => i \notin emitted'
    /\ (Executes("LogLevel")
          /\ DGreater(nodeEnergyLevels[NextEvent.a], Zero)
          /\ lastReportedEnergy[NextEvent.a] = nodeEnergyLevels[NextEvent.a])
              => NextEvent.a \notin emitted'

SilentWhenUnchangedAboveZero == [][SilentWhenUnchangedAboveZeroStep]_vars


\* One executed depletion check: above 0 it reports nothing and arms the next
\* check of its node 1 s later; at 0 it reports once and arms nothing.
DepletionCheckStep ==
    Executes("Deplete") =>
        LET n == NextEvent.a
            pending == {e \in queue' : e.kind = "Deplete" /\ e.a = n}
        IN  IF DGreater(nodeEnergyLevels[n], Zero)
            THEN /\ depletionReports' = depletionReports
                 /\ emitted' = {}
                 /\ Cardinality(pending) = 1
                 /\ \A e \in pending : e.ts = NextEvent.ts + 1 /\ e \notin queue
            ELSE /\ depletionReports' = [depletionReports EXCEPT ![n] = @ + 1]
                 /\ emitted' = {n}
                 /\ pending = {}

\* The chain of a node is pending until its report and never after it; a
\* node is reported at most once, and only with an empty source.
DepletionChains ==
    program = "part_001_second" =>
        \A n \in Nodes :
            /\ depletionReports[n] <= 1
            /\ depletionReports[n] = 1 =>
                  DLeq(nodeEnergyLevels[n], Zero) /\ PendingChains("Deplete", n) = {}
            /\ depletionReports[n] = 0 =>
                  /\ Cardinality(PendingChains("Deplete", n)) = 1
                  /\ \A e \in PendingChains("Deplete", n) : e.ts <= now + 1

\* zeroSince[n] is the time of the last event before the source of n ran
\* empty: it ran empty in the time unit that follows.
ReportedBy(n, limit) ==
    (program = "part_001_second" /\ zeroSince[n] >= 0 /\ zeroSince[n] < limit
        /\ (now > zeroSince[n] + 1 \/ stopped))
        => depletionReports[n] = 1

\* C28 as claimed: the chain re-arms every time unit above 0, reports at the
\* first check at 0 and never fires again, so that a node is reported at most
\* once; and a source that runs empty before the stop time has been reported
\* one time unit later.
C28_DepletionReportedBeforeStop ==
    /\ [][DepletionCheckStep]_vars
    /\ [](DepletionChains /\ \A n \in Nodes : ReportedBy(n, StopTimeMonitor))

\* C28: the chain re-arms every time unit above 0, reports at the first check
\* at 0 and never fires again, so that a node is reported at most once; a
\* source that runs empty before the last check, which is the one 1 time unit
\* before the stop time, has been reported one time unit later.
C28_DepletionReportedBeforeLastCheck ==
    /\ [][DepletionCheckStep]_vars
    /\ [](DepletionChains /\ \A n \in Nodes : ReportedBy(n, StopTimeMonitor - 1))

\* C28 case: the source of a node ran empty between t=1 and t=2, its check
\* at t=2 has just reported it and left nothing pending for it, while the
\* chain of a node with energy left is pending.
C28_Witness ==
    /\ last.kind = "Deplete"
    /\ now = 2
    /\ zeroSince[last.a] = 1
    /\ emitted = {last.a}
    /\ depletionReports[last.a] = 1
    /\ PendingChains("Deplete", last.a) = {}
    /\ \E m \in Nodes : /\ DGreater(nodeEnergyLevels[m], Zero)
                        /\ depletionReports[m] = 0
                        /\ PendingChains("Deplete", m) # {}

====
